---------------------------- MODULE Spec2Model ----------------------------
(***************************************************************************)
(* Model of the phrase-location and rectangle-reconciliation engine of     *)
(* src/src/utils/HighlightManager.ts (class HighlightManager).             *)
(*                                                                         *)
(* Strings are sequences of one-character strings, so that every regular   *)
(* expression of the source is modelled by the scan it performs.           *)
(* Coordinates are integers.                                               *)
(***************************************************************************)
EXTENDS Integers, Sequences, FiniteSets, TLC

VARIABLES
    op,                  \* which operation the current call runs
    pc,                  \* position of the current call
    text,                \* normalizeForMatching: argument
    normalized,          \* normalizeForMatching(text)
    renormalized,        \* normalizeForMatching(normalized)
    groups,              \* digit groups the argument was written from, or <<>>
    haystack,            \* fuzzyMatch: first argument
    needle,              \* fuzzyMatch: second argument
    matched,             \* fuzzyMatch: returned boolean
    phrase,              \* findPhrase: phrase
    id,                  \* findPhrase: id
    pageContents,        \* findPhrase: pageContents
    pageHint,            \* findPhrase: pageHint
    searchOrder,         \* findPhrase: searchOrder
    cursor,              \* findPhrase: position of the for loop in searchOrder
    visited,             \* findPhrase: page indices examined so far, in order
    matchingItemIndices, \* findTextRects: touched items of the last call
    console,             \* diagnostics written by the call
    result,              \* findPhrase: returned value
    rects,               \* mergeRects: argument
    merged,              \* mergeRects: returned value
    highlights,          \* useHighlightStore: highlights
    activeReferenceId,   \* useHighlightStore: activeReferenceId, <<>> (null) or <<id>>
    pdfViewer            \* usePdfViewerStore: numPages, currentPage, scale

vars == <<op, pc, text, normalized, renormalized, groups, haystack, needle,
          matched, phrase, id, pageContents, pageHint, searchOrder, cursor,
          visited, matchingItemIndices, console, result, rects, merged,
          highlights, activeReferenceId, pdfViewer>>

(***************************************************************************)
(* Call by value. TLC evaluates an operator argument and a LET definition  *)
(* anew at each use; Call(F, a) evaluates a once and applies F to its      *)
(* value, as a call of the source does.                                    *)
(***************************************************************************)
Min(a, b) == IF a <= b THEN a ELSE b

Max(a, b) == IF a >= b THEN a ELSE b

Abs(a) == IF a >= 0 THEN a ELSE -a

Call(F(_), a) == CHOOSE r \in { F(x) : x \in {a} } : TRUE

Call2(F(_, _), a, b) == CHOOSE r \in { F(x, y) : x \in {a}, y \in {b} } : TRUE

(***************************************************************************)
(* Characters and strings                                                  *)
(***************************************************************************)
UpperCase == <<"A","B","C","D","E","F","G","H","I","J","K","L","M",
               "N","O","P","Q","R","S","T","U","V","W","X","Y","Z">>

LowerCase == <<"a","b","c","d","e","f","g","h","i","j","k","l","m",
               "n","o","p","q","r","s","t","u","v","w","x","y","z">>

Digits == {"0","1","2","3","4","5","6","7","8","9"}

\* \s of the regular expressions
Whitespace == {" ", "\t", "\n", "\r", "\f"}

\* the punctuation kept by the character class [^\w\s.,;:!?$%()-]
KeptPunctuation == {".", ",", ";", ":", "!", "?", "$", "%", "(", ")", "-"}

Letters == {UpperCase[i] : i \in 1..26} \cup {LowerCase[i] : i \in 1..26}

\* the lower-case form of every upper-case letter
lowerOf == [c \in {UpperCase[i] : i \in 1..26} |->
               LowerCase[CHOOSE i \in 1..26 : UpperCase[i] = c]]

lowerChar(c) == IF c \in DOMAIN lowerOf THEN lowerOf[c] ELSE c

\* \w of the regular expressions
IsWordChar(c) == c \in Letters \/ c \in Digits \/ c = "_"

\* String.prototype.toLowerCase
toLowerCase(s) == [i \in 1..Len(s) |-> lowerChar(s[i])]

\* s.substring(from - 1, from - 1 + Len(t)) = t, 1-based position from
MatchesAt(s, t, from) ==
    /\ from >= 1
    /\ from + Len(t) - 1 <= Len(s)
    /\ \A k \in 1..Len(t) : s[from + k - 1] = t[k]

\* String.prototype.includes
includes(s, t) == \E from \in 1..(Len(s) + 1) : MatchesAt(s, t, from)

\* String.prototype.indexOf, 0-based, -1 when absent
indexOf(s, t) ==
    IF includes(s, t)
    THEN (CHOOSE from \in 1..(Len(s) + 1) :
             /\ MatchesAt(s, t, from)
             /\ \A g \in 1..(from - 1) : ~MatchesAt(s, t, g)) - 1
    ELSE -1

\* String.prototype.substring(from, to), 0-based, clipped to the string
substring(s, from, to) ==
    LET lo == IF from < 0 THEN 0 ELSE IF from > Len(s) THEN Len(s) ELSE from
        hi == IF to < 0 THEN 0 ELSE IF to > Len(s) THEN Len(s) ELSE to
    IN  IF lo <= hi THEN SubSeq(s, lo + 1, hi) ELSE SubSeq(s, hi + 1, lo)

\* first position >= i of s that is not whitespace (Len(s) + 1 if none)
skipWhitespace(s, i) ==
    IF \E j \in i..Len(s) : s[j] \notin Whitespace
    THEN CHOOSE j \in i..Len(s) :
             s[j] \notin Whitespace /\ \A k \in i..(j - 1) : s[k] \in Whitespace
    ELSE Max(i, Len(s) + 1)

\* the characters of a sequence of strings, in order
RECURSIVE concatRange(_, _, _)
\* ss[lo] \o ... \o ss[hi], by halves
concatRange(ss, lo, hi) ==
    IF lo > hi THEN <<>>
    ELSE IF lo = hi THEN ss[lo]
    ELSE Call(LAMBDA mid : concatRange(ss, lo, mid) \o concatRange(ss, mid + 1, hi),
              (lo + hi) \div 2)

concat(ss) == concatRange(ss, 1, Len(ss))

\* String.prototype.split(' '): the pieces between the spaces of s
split(s) ==
    LET cuts == <<0>> \o SelectSeq([i \in 1..Len(s) |-> IF s[i] = " " THEN i ELSE 0],
                                   LAMBDA i : i # 0) \o <<Len(s) + 1>>
    IN  Call(LAMBDA c : [k \in 1..(Len(c) - 1) |-> SubSeq(s, c[k] + 1, c[k + 1] - 1)],
             cuts)

(***************************************************************************)
(* normalizeForMatching                                                    *)
(***************************************************************************)
usd == <<"u","s","d">>

usdSpace == <<"u","s","d"," ">>

\* .replace(/\s+/g, ' '): each run of whitespace becomes one space
collapseWhitespace(s) ==
    concat([i \in 1..Len(s) |->
               IF s[i] \notin Whitespace THEN <<s[i]>>
               ELSE IF i = 1 \/ s[i - 1] \notin Whitespace THEN <<" ">>
               ELSE <<>>])

\* /usd/i matches at position i of s
usdAt(s, i) == i + 2 <= Len(s) /\ \A k \in 1..3 : lowerChar(s[i + k - 1]) = usd[k]

\* .replace(/usd\s*/gi, 'usd '), scanning s from position i
RECURSIVE replaceUsdFrom(_, _)
replaceUsdFrom(s, i) ==
    Call(LAMBDA at :
             IF at = {} THEN SubSeq(s, i, Len(s))
             ELSE Call(LAMBDA first :
                           SubSeq(s, i, first - 1) \o usdSpace
                           \o Call(LAMBDA j : replaceUsdFrom(s, j),
                                   skipWhitespace(s, first + 3)),
                       CHOOSE j \in at : \A k \in at : j <= k),
         { j \in i..Len(s) : usdAt(s, j) })

replaceUsd(s) == replaceUsdFrom(s, 1)

\* .replace(/\$/g, 'usd ')
replaceDollar(s) ==
    concat([i \in 1..Len(s) |-> IF s[i] = "$" THEN usdSpace ELSE <<s[i]>>])

\* thousands separators left in place
removeThousandsNever(s) == s

\* .replace(/,(\d)/g, '$1'): a comma followed by a digit is dropped
removeThousands(s) ==
    concat([i \in 1..Len(s) |->
               IF s[i] = "," /\ i + 1 <= Len(s) /\ s[i + 1] \in Digits
               THEN <<>> ELSE <<s[i]>>])

IsKept(c) == IsWordChar(c) \/ c \in Whitespace \/ c \in KeptPunctuation

\* .replace(/[^\w\s.,;:!?$%()-]/g, '')
stripSpecial(s) == SelectSeq(s, IsKept)

\* String.prototype.trim
trim(s) ==
    LET kept == {j \in 1..Len(s) : s[j] \notin Whitespace}
    IN  IF kept = {} THEN <<>>
        ELSE SubSeq(s, CHOOSE j \in kept : \A k \in kept : j <= k,
                       CHOOSE j \in kept : \A k \in kept : j >= k)

normalizeForMatching(s) ==
    Call(trim, Call(stripSpecial, Call(removeThousands, Call(replaceDollar,
        Call(replaceUsd, Call(collapseWhitespace, toLowerCase(s)))))))

(***************************************************************************)
(* fuzzyMatch                                                              *)
(***************************************************************************)
\* first position >= i of s that is not a digit (Len(s) + 1 if none)
skipDigits(s, i) ==
    IF \E j \in i..Len(s) : s[j] \notin Digits
    THEN CHOOSE j \in i..Len(s) :
             s[j] \notin Digits /\ \A k \in i..(j - 1) : s[k] \in Digits
    ELSE Max(i, Len(s) + 1)

\* the position after the match of /\d+\.?\d*/ that starts at the digit s[i]
numberEnd(s, i) ==
    Call(LAMBDA j : IF j <= Len(s) /\ s[j] = "." THEN skipDigits(s, j + 1) ELSE j,
         skipDigits(s, i))

\* text.match(/\d+\.?\d*/g) || [], scanning s from position i
RECURSIVE matchNumbersFrom(_, _)
matchNumbersFrom(s, i) ==
    Call(LAMBDA at :
             IF at = {} THEN <<>>
             ELSE Call(LAMBDA first :
                           Call(LAMBDA k : <<SubSeq(s, first, k - 1)>>
                                           \o matchNumbersFrom(s, k),
                                numberEnd(s, first)),
                       CHOOSE j \in at : \A k \in at : j <= k),
         { j \in i..Len(s) : s[j] \in Digits })

matchNumbers(s) == matchNumbersFrom(s, 1)

MinWordLength == 4

fuzzyStopWords ==
    { <<"t","h","i","s">>, <<"t","h","a","t">>, <<"w","i","t","h">>,
      <<"f","r","o","m">>, <<"h","a","v","e">>, <<"b","e","e","n">>,
      <<"w","e","r","e">>, <<"s","a","i","d">> }

\* the local function extractKeyTerms of fuzzyMatch: numbers, then words
extractKeyTerms(s) ==
    matchNumbers(s)
    \o SelectSeq(split(s),
              LAMBDA word : Len(word) >= MinWordLength /\ word \notin fuzzyStopWords)

\* needleTerms.SelectSeq(term => haystackTerms.some(...))
matchedTerms(nHaystack, nNeedle) ==
    Call2(LAMBDA needleTerms, haystackTerms :
              SelectSeq(needleTerms,
                     LAMBDA term : \E h \in 1..Len(haystackTerms) :
                         \/ includes(haystackTerms[h], term)
                         \/ includes(term, haystackTerms[h])),
          extractKeyTerms(nNeedle), extractKeyTerms(nHaystack))

\* the threshold with both conditions required
thresholdMetBoth(k, t) == 5 * k >= 3 * t /\ k >= 2

\* matchRatio >= 0.6 || matchedTerms.length >= 2, the ratio k / t compared
\* as 5 * k >= 3 * t (the IEEE quotient k / t is >= 0.6 exactly then)
thresholdMet(k, t) == 5 * k >= 3 * t \/ k >= 2

\* the verdict with an empty list of needle terms accepted
keyTermsVerdictEmptyAccepted(k, t) == IF t = 0 THEN TRUE ELSE thresholdMet(k, t)

\* if (needleTerms.length === 0) return false, then the threshold on
\* k matched terms out of t needle terms
keyTermsVerdict(k, t) == IF t = 0 THEN FALSE ELSE thresholdMet(k, t)

\* fuzzyMatch without the exact pass
fuzzyMatchNormalizedTermsOnly(normalizedHaystack, normalizedNeedle) ==
    Call2(keyTermsVerdict,
          Len(matchedTerms(normalizedHaystack, normalizedNeedle)),
          Len(extractKeyTerms(normalizedNeedle)))

\* fuzzyMatch on the normalized haystack and needle
fuzzyMatchNormalized(normalizedHaystack, normalizedNeedle) ==
    IF includes(normalizedHaystack, normalizedNeedle) THEN TRUE
    ELSE Call2(keyTermsVerdict,
               Len(matchedTerms(normalizedHaystack, normalizedNeedle)),
               Len(extractKeyTerms(normalizedNeedle)))

fuzzyMatch(h, n) ==
    Call2(fuzzyMatchNormalized, normalizeForMatching(h), normalizeForMatching(n))

(***************************************************************************)
(* mergeRects                                                              *)
(***************************************************************************)
SameLineTolerance == 5

GapTolerance == 10

Rect(x, y, width, height) == [x |-> x, y |-> y, width |-> width, height |-> height]

\* the comparator (a, b) => a.y - b.y || a.x - b.x
compareRects(a, b) == IF a.y - b.y # 0 THEN a.y - b.y ELSE a.x - b.x

\* Array.prototype.sort is stable: r goes after every element not above it
insertSorted(sorted, r) ==
    Call(LAMBDA after :
             Call(LAMBDA at : SubSeq(sorted, 1, at - 1) \o <<r>>
                              \o SubSeq(sorted, at, Len(sorted)),
                  IF after = {} THEN Len(sorted) + 1
                  ELSE CHOOSE j \in after : \A k \in after : j <= k),
         {j \in 1..Len(sorted) : compareRects(sorted[j], r) > 0})

RECURSIVE sortFrom(_, _, _)
sortFrom(rs, i, sorted) ==
    IF i > Len(rs) THEN sorted
    ELSE Call2(LAMBDA j, next : sortFrom(rs, j, next),
               i + 1, insertSorted(sorted, rs[i]))

\* [...rects].sort(...)
sortRects(rs) == sortFrom(rs, 1, <<>>)

\* the same-line test with the tolerance included
sameYInclusive(current, next) == Abs(current.y - next.y) <= SameLineTolerance

sameY(current, next) == Abs(current.y - next.y) < SameLineTolerance

adjacent(current, next) == next.x <= current.x + current.width + GapTolerance

\* the body of the if branch: the bounding union of current and next
mergeTwo(current, next) ==
    Rect(Min(current.x, next.x), Min(current.y, next.y),
         Max(current.x + current.width, next.x + next.width)
             - Min(current.x, next.x),
         Max(current.height, next.height))

\* The for loop of mergeRects over sorted[i..]. Each entry pairs a rectangle
\* with the positions of `sorted` folded into it.
RECURSIVE mergeScan(_, _, _, _)
mergeScan(sorted, i, current, out) ==
    IF i > Len(sorted) THEN Append(out, current)
    ELSE IF sameY(current.rect, sorted[i]) /\ adjacent(current.rect, sorted[i])
         THEN Call2(LAMBDA j, c : mergeScan(sorted, j, c, out),
                    i + 1,
                    [rect |-> mergeTwo(current.rect, sorted[i]),
                     from |-> current.from \cup {i}])
         ELSE Call2(LAMBDA j, o : mergeScan(sorted, j, [rect |-> sorted[j - 1],
                                                        from |-> {j - 1}], o),
                    i + 1, Append(out, current))

mergeTrace(rs) ==
    IF Len(rs) = 0 THEN <<>>
    ELSE Call(LAMBDA sorted : mergeScan(sorted, 2, [rect |-> sorted[1], from |-> {1}],
                                        <<>>),
              sortRects(rs))

\* the argument array after a sort in place, rects.sort(...)
argumentAfterSortInPlace(rs) == IF Len(rs) <= 1 THEN rs ELSE sortRects(rs)

\* the argument array after the call: the sort works on the copy [...rects]
\* and the loop only reads `sorted`
argumentAfterMerge(rs) == rs

mergeRects(rs) ==
    IF Len(rs) <= 1 THEN rs
    ELSE Call(LAMBDA trace : [k \in 1..Len(trace) |-> trace[k].rect], mergeTrace(rs))

(***************************************************************************)
(* findTextRects                                                           *)
(***************************************************************************)
ContextBefore == 50

ContextAfter == 100

PartialLength == 100

DefaultHeight == 12

rectsStopWords ==
    { <<"t","h","i","s">>, <<"t","h","a","t">>, <<"w","i","t","h">>,
      <<"f","r","o","m">> }

endsWithSpace(s) == Len(s) > 0 /\ s[Len(s)] = " "

startsWithSpace(s) == Len(s) > 0 /\ s[1] = " "

\* a space added after every item but the last
spaceAfterAlways(items, k) == k - 1 < Len(items) - 1

\* a space is added after item k (1-based) of items
spaceAfter(items, k) ==
    /\ k - 1 < Len(items) - 1
    /\ ~endsWithSpace(items[k].str)
    /\ ~startsWithSpace(items[k + 1].str)

\* what item k adds to fullText
piece(items, k) ==
    items[k].str \o (IF spaceAfter(items, k) THEN <<" ">> ELSE <<>>)

\* table entries that give the added space to the next item
pieceOwnersSpaceToNext(items, k) ==
    [i \in 1..Len(piece(items, k)) |-> IF i > Len(items[k].str) THEN k ELSE k - 1]

\* what item k adds to charToItemMap: its 0-based index for each of its
\* characters and for the space added after it
pieceOwners(items, k) == [i \in 1..Len(piece(items, k)) |-> k - 1]

\* pageContent.items.forEach(...): the buffer and the item index (0-based)
\* of each of its characters
buildIndex(items) ==
    [fullText      |-> concat([k \in 1..Len(items) |-> piece(items, k)]),
     charToItemMap |-> concat([k \in 1..Len(items) |-> pieceOwners(items, k)])]

\* the key terms of the partial pass: numbers, then words
allKeyTerms(normalizedPhrase) ==
    matchNumbers(normalizedPhrase)
    \o SelectSeq(split(normalizedPhrase),
              LAMBDA word : Len(word) >= MinWordLength /\ word \notin rectsStopWords)

\* a context test that one key term satisfies
enoughInContextOne(terms, normalizedFullText, termIndex) ==
    Call(LAMBDA context :
             Len(SelectSeq(terms, LAMBDA t : includes(context, t))) >= 1,
         substring(normalizedFullText,
                   Max(0, termIndex - ContextBefore),
                   Min(Len(normalizedFullText), termIndex + ContextAfter)))

\* termsInContext.length >= Math.max(1, allKeyTerms.length * 0.5)
enoughInContext(terms, normalizedFullText, termIndex) ==
    Call(LAMBDA context :
             Call(LAMBDA n : n >= 1 /\ 2 * n >= Len(terms),
                  Len(SelectSeq(terms, LAMBDA t : includes(context, t)))),
         substring(normalizedFullText,
                   Max(0, termIndex - ContextBefore),
                   Min(Len(normalizedFullText), termIndex + ContextAfter)))

\* for (const term of allKeyTerms) { ... break }
RECURSIVE partialPass(_, _, _)
partialPass(terms, k, normalizedFullText) ==
    IF k > Len(terms) THEN [startIndex |-> -1, searchLength |-> 0, partial |-> FALSE]
    ELSE Call(LAMBDA termIndex :
                  IF termIndex # -1
                     /\ enoughInContext(terms, normalizedFullText, termIndex)
                  THEN [startIndex   |-> termIndex,
                        searchLength |-> Min(PartialLength,
                                             Len(normalizedFullText) - termIndex),
                        partial      |-> TRUE]
                  ELSE Call(LAMBDA j : partialPass(terms, j, normalizedFullText), k + 1),
              indexOf(normalizedFullText, terms[k]))

\* startIndex and searchLength after both passes
resolveSpan(normalizedPhrase, normalizedFullText) ==
    Call(LAMBDA startIndex :
             IF startIndex # -1
             THEN [startIndex |-> startIndex, searchLength |-> Len(normalizedPhrase),
                   partial |-> FALSE]
             ELSE Call(LAMBDA p : IF p.startIndex # -1 THEN p
                                  ELSE [startIndex   |-> -1,
                                        searchLength |-> Len(normalizedPhrase),
                                        partial      |-> FALSE],
                       Call(LAMBDA terms : partialPass(terms, 1, normalizedFullText),
                            allKeyTerms(normalizedPhrase))),
         indexOf(normalizedFullText, normalizedPhrase))

\* Math.floor(normIndex * (fullText.length / normalizedFullText.length)).
\* For the buffers of this model (shorter than 47 characters) the rounded
\* product has the floor of the exact quotient. With an empty normalized
\* buffer the ratio is Infinity or NaN and so is every translated offset:
\* see isNaN below.
normalizedToOriginal(normIndex, fullLength, normalizedLength) ==
    (normIndex * fullLength) \div normalizedLength

\* the translated offsets are NaN: 0 * Infinity or 0 * NaN
isNaN(normalizedLength) == normalizedLength = 0

\* the loop with an inclusive start that is skipped
touchedItemsFromNext(charToItemMap, originalStart, originalEnd) ==
    { charToItemMap[i + 1] :
        i \in (originalStart + 1) .. (Min(originalEnd, Len(charToItemMap)) - 1) }

\* the loop with an inclusive end, i <= Math.min(originalEnd, length - 1)
touchedItemsInclusiveEnd(charToItemMap, originalStart, originalEnd) ==
    { charToItemMap[i + 1] :
        i \in originalStart .. Min(originalEnd, Len(charToItemMap) - 1) }

\* for (let i = originalStart; i < Math.min(originalEnd, length); i++)
\*   matchingItemIndices.add(charToItemMap[i])
touchedItems(charToItemMap, originalStart, originalEnd) ==
    { charToItemMap[i + 1] :
        i \in originalStart .. (Min(originalEnd, Len(charToItemMap)) - 1) }

\* Array.from(matchingItemIndices).sort((a, b) => a - b)
sortIndices(touched) ==
    [n \in 1..Cardinality(touched) |->
        CHOOSE a \in touched : Cardinality({b \in touched : b < a}) = n - 1]

\* the rectangle of a text item: transform[4], transform[5], width,
\* height || 12
itemRect(item) ==
    Rect(item.transform[5], item.transform[6], item.width,
         IF item.height = 0 THEN DefaultHeight ELSE item.height)

\* lines 151-173: the normalized phrase, the buffer and its index
indexed(ph, pageContent) ==
    Call(LAMBDA index :
             [normalizedPhrase   |-> normalizeForMatching(ph),
              fullText           |-> index.fullText,
              charToItemMap      |-> index.charToItemMap,
              normalizedFullText |-> normalizeForMatching(index.fullText)],
         buildIndex(pageContent.items))

\* lines 175-229: the span and its translation to the buffer
located(t) ==
    Call(LAMBDA span :
             t @@ [found         |-> span.startIndex # -1,
                   partial       |-> span.partial,
                   startIndex    |-> span.startIndex,
                   searchLength  |-> span.searchLength,
                   nan           |-> isNaN(Len(t.normalizedFullText)),
                   originalStart |->
                       IF isNaN(Len(t.normalizedFullText)) THEN 0
                       ELSE normalizedToOriginal(span.startIndex, Len(t.fullText),
                                                 Len(t.normalizedFullText)),
                   originalEnd   |->
                       IF isNaN(Len(t.normalizedFullText)) THEN 0
                       ELSE normalizedToOriginal(span.startIndex + span.searchLength,
                                                 Len(t.fullText),
                                                 Len(t.normalizedFullText))],
         resolveSpan(t.normalizedPhrase, t.normalizedFullText))

\* lines 231-257: the touched items and their merged rectangles
resolved(pageContent, t) ==
    Call(LAMBDA touched :
             Call(LAMBDA itemRects :
                      t @@ [matchingItemIndices |-> touched,
                            itemRects |-> itemRects,
                            rects |-> IF ~t.found THEN <<>> ELSE mergeRects(itemRects)],
                  Call(LAMBDA ordered :
                           [n \in 1..Len(ordered) |->
                               itemRect(pageContent.items[ordered[n] + 1])],
                       sortIndices(touched))),
         IF ~t.found \/ t.nan THEN {}
         ELSE touchedItems(t.charToItemMap, t.originalStart, t.originalEnd))

\* one record for the locals of a call of findTextRects
textRectsTrace(ph, pageContent) ==
    Call(LAMBDA t : resolved(pageContent, t), Call(located, indexed(ph, pageContent)))

findTextRects(ph, pageContent) == textRectsTrace(ph, pageContent).rects

(***************************************************************************)
(* findPhrase                                                              *)
(***************************************************************************)
undefined == [undefined |-> TRUE]

null == [null |-> TRUE]

HighlightColor == "#fef08a"

\* a fallback that keeps the empty list findTextRects returned
fallbackRectsEmpty == <<>>

\* rects: [{ x: 50, y: 100, width: 500, height: 30 }]
fallbackRects == <<Rect(50, 100, 500, 30)>>

\* a fallback path that logs nothing
fallbackDiagnosticNone == <<>>

\* console.warn(`Exact coordinates not found ... using fallback`)
fallbackDiagnostic == <<"warn:fallback">>

\* pageContents[pageIndex], pageIndex 0-based
pageAt(contents, pageIndex) ==
    IF pageIndex >= 0 /\ pageIndex < Len(contents)
    THEN contents[pageIndex + 1] ELSE undefined

\* pageContents.map((_, i) => i)
indices(contents) == [k \in 1..Len(contents) |-> k - 1]

\* a visit order that ignores the hint
buildSearchOrderNoHint(contents, hint) == indices(contents)

\* the page-visit order; hint is <<>> (undefined) or <<pageHint>>
buildSearchOrder(contents, hint) ==
    IF hint # <<>>
    THEN <<hint[1]>> \o SelectSeq(indices(contents), LAMBDA i : i # hint[1])
    ELSE indices(contents)

\* a result that carries the normalized phrase
HighlightNormalized(hid, ph, pageIndex, rs) ==
    [id |-> hid, phrase |-> normalizeForMatching(ph), pageIndex |-> pageIndex,
     rects |-> rs, color |-> HighlightColor]

Highlight(hid, ph, pageIndex, rs) ==
    [id |-> hid, phrase |-> ph, pageIndex |-> pageIndex, rects |-> rs,
     color |-> HighlightColor]

\* the loop is at a page index of searchOrder
AtPage == pc = "loop" /\ cursor <= Len(searchOrder)

currentIndex == searchOrder[cursor]

currentPage == pageAt(pageContents, currentIndex)

\* lines 85-95: normalize, log, build the visit order
FindPhraseStart ==
    /\ op = "findPhrase" /\ pc = "start"
    /\ searchOrder' = buildSearchOrder(pageContents, pageHint)
    /\ cursor' = 1
    /\ console' = console \o <<"log:searching", "log:normalized">>
    /\ pc' = "loop"
    /\ UNCHANGED <<pdfViewer, highlights, activeReferenceId, op, text, normalized, renormalized, groups, haystack, needle,
                   matched, phrase, id, pageContents, pageHint, visited,
                   matchingItemIndices, result, rects, merged>>

\* line 99: if (!pageContent) continue
SkipAbsentPage ==
    /\ op = "findPhrase" /\ AtPage
    /\ currentPage = undefined
    /\ cursor' = cursor + 1
    /\ UNCHANGED <<pdfViewer, highlights, activeReferenceId, op, pc, text, normalized, renormalized, groups, haystack, needle,
                   matched, phrase, id, pageContents, pageHint, searchOrder,
                   visited, matchingItemIndices, console, result, rects, merged>>

\* lines 101-104: the page is examined and does not match
PageNoMatch ==
    /\ op = "findPhrase" /\ AtPage
    /\ currentPage # undefined
    /\ ~fuzzyMatch(currentPage.text, phrase)
    /\ visited' = Append(visited, currentIndex)
    /\ console' = Append(console, "log:checking")
    /\ cursor' = cursor + 1
    /\ UNCHANGED <<pdfViewer, highlights, activeReferenceId, op, pc, text, normalized, renormalized, groups, haystack, needle,
                   matched, phrase, id, pageContents, pageHint, searchOrder,
                   matchingItemIndices, result, rects, merged>>

\* lines 104-119: the page matches and findTextRects resolves rectangles
PageMatchRects ==
    /\ op = "findPhrase" /\ AtPage
    /\ currentPage # undefined
    /\ fuzzyMatch(currentPage.text, phrase)
    /\ \E trace \in {textRectsTrace(phrase, currentPage)} :
           /\ Len(trace.rects) > 0
           /\ matchingItemIndices' = trace.matchingItemIndices
           /\ console' = console \o <<"log:checking", "log:found match">>
                  \o (IF trace.partial THEN <<"log:partial match">> ELSE <<>>)
                  \o <<"log:found rectangles">>
           /\ result' = Highlight(id, phrase, currentIndex, trace.rects)
    /\ visited' = Append(visited, currentIndex)
    /\ pc' = "done"
    /\ UNCHANGED <<pdfViewer, highlights, activeReferenceId, op, text, normalized, renormalized, groups, haystack, needle,
                   matched, phrase, id, pageContents, pageHint, searchOrder, cursor,
                   rects, merged>>

\* a fallback that goes on to the next page instead of returning
PageMatchFallbackContinue ==
    /\ op = "findPhrase" /\ AtPage
    /\ currentPage # undefined
    /\ fuzzyMatch(currentPage.text, phrase)
    /\ Len(findTextRects(phrase, currentPage)) = 0
    /\ visited' = Append(visited, currentIndex)
    /\ console' = console \o <<"log:checking", "log:found match">>
    /\ cursor' = cursor + 1
    /\ UNCHANGED <<pdfViewer, highlights, activeReferenceId, op, pc, text, normalized, renormalized, groups, haystack, needle,
                   matched, phrase, id, pageContents, pageHint, searchOrder,
                   matchingItemIndices, result, rects, merged>>

\* lines 104-132: the page matches and findTextRects returns no rectangle
PageMatchFallback ==
    /\ op = "findPhrase" /\ AtPage
    /\ currentPage # undefined
    /\ fuzzyMatch(currentPage.text, phrase)
    /\ \E trace \in {textRectsTrace(phrase, currentPage)} :
           /\ Len(trace.rects) = 0
           /\ matchingItemIndices' = trace.matchingItemIndices
           /\ console' = console \o <<"log:checking", "log:found match">>
                  \o (IF trace.partial THEN <<"log:partial match">> ELSE <<>>)
                  \o (IF ~trace.found THEN <<"warn:could not find">> ELSE <<>>)
                  \o fallbackDiagnostic
           /\ result' = Highlight(id, phrase, currentIndex, fallbackRects)
    /\ visited' = Append(visited, currentIndex)
    /\ pc' = "done"
    /\ UNCHANGED <<pdfViewer, highlights, activeReferenceId, op, text, normalized, renormalized, groups, haystack, needle,
                   matched, phrase, id, pageContents, pageHint, searchOrder, cursor,
                   rects, merged>>

\* a loop end that returns the placeholder instead of null
ReturnPlaceholder ==
    /\ op = "findPhrase" /\ pc = "loop"
    /\ cursor > Len(searchOrder)
    /\ console' = Append(console, "warn:fallback")
    /\ result' = Highlight(id, phrase, 0, fallbackRects)
    /\ pc' = "done"
    /\ UNCHANGED <<pdfViewer, highlights, activeReferenceId, op, text, normalized, renormalized, groups, haystack, needle,
                   matched, phrase, id, pageContents, pageHint, searchOrder, cursor,
                   visited, matchingItemIndices, rects, merged>>

\* lines 136-137: the loop ended without a match
ReturnNull ==
    /\ op = "findPhrase" /\ pc = "loop"
    /\ cursor > Len(searchOrder)
    /\ console' = Append(console, "error:not found")
    /\ result' = null
    /\ pc' = "done"
    /\ UNCHANGED <<pdfViewer, highlights, activeReferenceId, op, text, normalized, renormalized, groups, haystack, needle,
                   matched, phrase, id, pageContents, pageHint, searchOrder, cursor,
                   visited, matchingItemIndices, rects, merged>>

(***************************************************************************)
(* Inputs                                                                  *)
(***************************************************************************)
MaxPages == 3

Item(str, x, y, width, height) ==
    [str |-> str, transform |-> <<1, 0, 0, 1, x, y>>, width |-> width,
     height |-> height]

sRevenue == <<"R","e","v","e","n","u","e">>

s128 == <<"1","2",".","8">>

sBillion == <<"b","i","l","l","i","o","n">>

\* REFERENCES[0].phrase
phraseRevenue == <<"R","e","v","e","n","u","e"," ","1","2",".","8">>

phraseRevenues == <<"R","e","v","e","n","u","e","s">>

phraseX == <<"x">>

\* id and phrase of the references a caller asks for
References ==
    { [id |-> "ref-1", phrase |-> phraseRevenue],
      [id |-> "ref-2", phrase |-> phraseRevenues],
      [id |-> "ref-3", phrase |-> <<>>] }

RECURSIVE joinItems(_, _)
\* textContent.items.map((item) => item.str).join(' ')
joinItems(items, k) ==
    IF k > Len(items) THEN <<>>
    ELSE items[k].str \o (IF k < Len(items) THEN <<" ">> ELSE <<>>)
         \o joinItems(items, k + 1)

\* what page.getTextContent() yields for a page
Extracted(items) == [text |-> joinItems(items, 1), items |-> items]

itemsRevenue ==
    << Item(sRevenue, 0, 100, 50, 12), Item(s128, 55, 101, 45, 12),
       Item(sBillion, 120, 100, 45, 0) >>

itemsOutlook == << Item(<<"O","u","t","l","o","o","k">>, 0, 100, 50, 12) >>

\* a page whose advisory text names the phrase and whose fragment list is empty
pageNoItems == [text |-> phraseRevenue, items |-> <<>>]

ExtractionError == [error |-> TRUE]

PageSources ==
    { Extracted(itemsRevenue), Extracted(itemsOutlook), pageNoItems, undefined,
      ExtractionError }

\* the extraction loop of onDocumentLoadSuccess: page i of the document gets
\* pageIndex i - 1; a page whose extraction throws is left out
RECURSIVE extractPages(_, _)
extractPages(source, i) ==
    IF i > Len(source) THEN <<>>
    ELSE (IF source[i] = ExtractionError THEN <<>>
          ELSE IF source[i] = undefined THEN <<undefined>>
          ELSE <<[pageIndex |-> i - 1, text |-> source[i].text,
                  items |-> source[i].items]>>)
         \o extractPages(source, i + 1)

Documents == UNION { [1..n -> PageSources] : n \in 0..MaxPages }

PageHints == {<<>>} \cup { <<h>> : h \in 0..MaxPages }

IdleNormalize ==
    text = <<>> /\ normalized = <<>> /\ renormalized = <<>> /\ groups = <<>>

IdleFuzzy == haystack = <<>> /\ needle = <<>> /\ matched = FALSE

IdleFind ==
    /\ phrase = <<>> /\ id = "" /\ pageContents = <<>> /\ pageHint = <<>>
    /\ searchOrder = <<>> /\ cursor = 0 /\ visited = <<>>
    /\ matchingItemIndices = {} /\ console = <<>> /\ result = null

IdleMerge == rects = <<>> /\ merged = <<>>

\* highlights: [], activeReferenceId: null
IdleStore == highlights = <<>> /\ activeReferenceId = <<>>

\* scales are written in hundredths: 1.2 is 120
MIN_SCALE == 50
MAX_SCALE == 300
SCALE_STEP == 25

PdfViewerState(num, page, zoom) ==
    [numPages |-> num, currentPage |-> page, scale |-> zoom]

\* the viewer store after create
IdleViewer == pdfViewer = PdfViewerState(0, 1, 120)

Init ==
    /\ op = "findPhrase" /\ pc = "start"
    /\ \E reference \in References :
           phrase = reference.phrase /\ id = reference.id
    /\ \E source \in Documents : pageContents = extractPages(source, 1)
    /\ pageHint \in PageHints
    /\ searchOrder = <<>> /\ cursor = 0 /\ visited = <<>>
    /\ matchingItemIndices = {} /\ console = <<>> /\ result = null
    /\ IdleNormalize /\ IdleFuzzy /\ IdleMerge /\ IdleStore /\ IdleViewer

Next ==
    \/ FindPhraseStart
    \/ SkipAbsentPage
    \/ PageNoMatch
    \/ PageMatchRects
    \/ PageMatchFallback
    \/ ReturnNull

Spec == Init /\ [][Next]_vars

(***************************************************************************)
(* Calls of normalizeForMatching                                           *)
(***************************************************************************)
MaxText == 3

MaxGroups == 2

TextAlphabet == {"u", "S", "d", " ", "$", ",", "5", "#", "."}

Texts == UNION { [1..n -> TextAlphabet] : n \in 0..MaxText }

LeadingGroups == { <<"1">>, <<"2">>, <<"1","2">>, <<"2","1">> }

ThousandDigits == {"0", "8"}

Amounts ==
    UNION { { <<lead>> \o rest : lead \in LeadingGroups,
                                 rest \in [1..n -> [1..3 -> ThousandDigits]] } :
            n \in 0..(MaxGroups - 1) }

RECURSIVE joinGroups(_, _, _)
\* the digit groups gs[k..], separated by sep
joinGroups(gs, k, sep) ==
    IF k > Len(gs) THEN <<>>
    ELSE gs[k] \o (IF k < Len(gs) THEN sep ELSE <<>>) \o joinGroups(gs, k + 1, sep)

\* "$12,800" for the groups 12 and 800
withSymbol(gs) == <<"$">> \o joinGroups(gs, 1, <<",">>)

\* "USD 12800" for the groups 12 and 800
withPrefix(gs) == <<"U","S","D"," ">> \o joinGroups(gs, 1, <<>>)

InitNormalize ==
    /\ op = "normalizeForMatching" /\ pc = "start"
    /\ \/ text \in Texts /\ groups = <<>>
       \/ groups \in Amounts /\ text = withSymbol(groups)
    /\ normalized = <<>> /\ renormalized = <<>>
    /\ IdleFuzzy /\ IdleFind /\ IdleMerge /\ IdleStore /\ IdleViewer

Normalize ==
    /\ op = "normalizeForMatching" /\ pc = "start"
    /\ normalized' = normalizeForMatching(text)
    /\ pc' = "normalized"
    /\ UNCHANGED <<pdfViewer, highlights, activeReferenceId, op, text, renormalized, groups, haystack, needle, matched,
                   phrase, id, pageContents, pageHint, searchOrder, cursor, visited,
                   matchingItemIndices, console, result, rects, merged>>

\* the result of a call is normalized again
Renormalize ==
    /\ op = "normalizeForMatching" /\ pc = "normalized"
    /\ renormalized' = normalizeForMatching(normalized)
    /\ pc' = "done"
    /\ UNCHANGED <<pdfViewer, highlights, activeReferenceId, op, text, normalized, groups, haystack, needle, matched,
                   phrase, id, pageContents, pageHint, searchOrder, cursor, visited,
                   matchingItemIndices, console, result, rects, merged>>

NextNormalize == Normalize \/ Renormalize

SpecNormalize == InitNormalize /\ [][NextNormalize]_vars

(***************************************************************************)
(* Calls of fuzzyMatch                                                     *)
(***************************************************************************)
MaxNeedleTokens == 4

MaxHaystackTokens == 2

NeedleTokens == { <<"g","a","i","n">>, <<"s","a","l","e">>, <<"1","2",".","8">>, <<"o","f">> }

HaystackTokens == { <<"G","a","i","n","s">>, <<"1","2",".","8">>, <<"o","f">> }

RECURSIVE joinTokens(_, _)
\* the tokens ts[k..] separated by single spaces
joinTokens(ts, k) ==
    IF k > Len(ts) THEN <<>>
    ELSE ts[k] \o (IF k < Len(ts) THEN <<" ">> ELSE <<>>) \o joinTokens(ts, k + 1)

Sentences(tokens, max) ==
    { joinTokens(ts, 1) : ts \in UNION { [1..n -> tokens] : n \in 0..max } }

InitFuzzy ==
    /\ op = "fuzzyMatch" /\ pc = "start"
    /\ haystack \in Sentences(HaystackTokens, MaxHaystackTokens)
    /\ needle \in Sentences(NeedleTokens, MaxNeedleTokens)
    /\ matched = FALSE
    /\ IdleNormalize /\ IdleFind /\ IdleMerge /\ IdleStore /\ IdleViewer

FuzzyMatch ==
    /\ op = "fuzzyMatch" /\ pc = "start"
    /\ matched' = fuzzyMatch(haystack, needle)
    /\ pc' = "done"
    /\ UNCHANGED <<pdfViewer, highlights, activeReferenceId, op, text, normalized, renormalized, groups, haystack, needle,
                   phrase, id, pageContents, pageHint, searchOrder, cursor, visited,
                   matchingItemIndices, console, result, rects, merged>>

NextFuzzy == FuzzyMatch

SpecFuzzy == InitFuzzy /\ [][NextFuzzy]_vars

(***************************************************************************)
(* Calls of mergeRects                                                     *)
(***************************************************************************)
MaxRects == 3

RectXs == {0, 55, 120}

RectYs == {100, 101, 105, 200}

RectWidths == {45, 50}

RectPool == { Rect(x, y, w, DefaultHeight) : x \in RectXs, y \in RectYs, w \in RectWidths }

InitMerge ==
    /\ op = "mergeRects" /\ pc = "start"
    /\ rects \in UNION { [1..n -> RectPool] : n \in 0..MaxRects }
    /\ merged = <<>>
    /\ IdleNormalize /\ IdleFuzzy /\ IdleFind /\ IdleStore /\ IdleViewer

MergeRects ==
    /\ op = "mergeRects" /\ pc = "start"
    /\ merged' = mergeRects(rects)
    /\ rects' = argumentAfterMerge(rects)
    /\ pc' = "done"
    /\ UNCHANGED <<pdfViewer, highlights, activeReferenceId, op, text, normalized, renormalized, groups, haystack, needle,
                   matched, phrase, id, pageContents, pageHint, searchOrder, cursor,
                   visited, matchingItemIndices, console, result>>

NextMerge == MergeRects

SpecMerge == InitMerge /\ [][NextMerge]_vars

(***************************************************************************)
(* Calls of findTextRects                                                  *)
(***************************************************************************)
MaxItems == 3

sTabbed == <<"x","\t">>

sLeading == <<" ","x">>

sTrailing == <<"x"," ">>

ItemStrs ==
    { sRevenue, s128, sBillion, <<"#","#">>, <<"x">>, <<"$","5">>,
      sTabbed, sLeading, sTrailing, <<>> }

phraseRevenueBillion == <<"R","e","v","e","n","u","e"," ","b","i","l","l","i","o","n">>

\* four key terms: 42, revenue, billion, outlook
phraseOutlook ==
    <<"4","2"," ","r","e","v","e","n","u","e"," ","b","i","l","l","i","o","n",
      " ","o","u","t","l","o","o","k">>

\* a phrase that normalizes to the empty string
phraseHash == <<"#">>

RectsPhrases ==
    { phraseRevenue, phraseRevenueBillion, phraseX, phraseOutlook, phraseHash }

\* a fragment of 9 characters that is no key term of any phrase
sFiller == <<"a","a","a","a","a","a","a","a","a">>

fillers(n) == [k \in 1..n |-> sFiller]

s42 == <<"4","2">>

sRevenueLower == <<"r","e","v","e","n","u","e">>

\* "42" at offset 0, "revenue" at 113, "billion" at 121, 228 characters
strsFarRight ==
    <<s42>> \o fillers(11) \o <<sRevenueLower, sBillion>> \o fillers(10)

\* "revenue" at offset 0, "42" at 58, 60 characters
strsFarLeft == <<sRevenueLower>> \o fillers(5) \o <<s42>>

\* pages longer than the context window of the partial pass
LongPages == { strsFarRight, strsFarLeft }

\* fragments laid out on one line, 55 units apart
itemsOf(strs) == [k \in 1..Len(strs) |-> Item(strs[k], 55 * (k - 1), 100, 50, 12)]

InitRects ==
    /\ op = "findTextRects" /\ pc = "start"
    /\ phrase \in RectsPhrases
    /\ \E strs \in UNION { [1..n -> ItemStrs] : n \in 0..MaxItems } \cup LongPages :
           pageContents = extractPages(<<Extracted(itemsOf(strs))>>, 1)
    /\ id = "" /\ pageHint = <<>> /\ searchOrder = <<>> /\ cursor = 0
    /\ visited = <<>> /\ matchingItemIndices = {} /\ console = <<>>
    /\ result = null
    /\ IdleNormalize /\ IdleFuzzy /\ IdleMerge /\ IdleStore /\ IdleViewer

\* findTextRects(phrase, pageContents[0]); rects holds the rectangles of
\* the matching items and merged the returned list
FindTextRects ==
    /\ op = "findTextRects" /\ pc = "start"
    /\ \E trace \in {textRectsTrace(phrase, pageContents[1])} :
           /\ matchingItemIndices' = trace.matchingItemIndices
           /\ rects' = trace.itemRects
           /\ merged' = trace.rects
           /\ console' = console
                  \o (IF trace.partial THEN <<"log:partial match">> ELSE <<>>)
                  \o (IF ~trace.found THEN <<"warn:could not find">> ELSE <<>>)
    /\ pc' = "done"
    /\ UNCHANGED <<pdfViewer, highlights, activeReferenceId, op, text, normalized, renormalized, groups, haystack, needle,
                   matched, phrase, id, pageContents, pageHint, searchOrder, cursor,
                   visited, result>>

NextRects == FindTextRects

SpecRects == InitRects /\ [][NextRects]_vars

(***************************************************************************)
(* useHighlightStore and the clicks that drive it                          *)
(***************************************************************************)
\* the state of the store
HighlightState(hs, active) == [highlights |-> hs, activeReferenceId |-> active]

\* addHighlight that keeps only the added highlight
addHighlightReplaceAll(state, highlight) ==
    HighlightState(<<highlight>>, <<highlight.id>>)

\* addHighlight: the entries with another id, then the new highlight
addHighlight(state, highlight) ==
    HighlightState(
        Append(SelectSeq(state.highlights, LAMBDA h : h.id # highlight.id),
               highlight),
        <<highlight.id>>)

clearHighlights(state) == HighlightState(<<>>, <<>>)

\* removeHighlight that leaves the active reference as it is
removeHighlightKeepActive(state, hid) ==
    HighlightState(
        SelectSeq(state.highlights, LAMBDA h : h.id # hid),
        state.activeReferenceId)

removeHighlight(state, hid) ==
    HighlightState(
        SelectSeq(state.highlights, LAMBDA h : h.id # hid),
        IF state.activeReferenceId = <<hid>> THEN <<>> ELSE state.activeReferenceId)

setActiveReference(state, active) == HighlightState(state.highlights, active)

store == HighlightState(highlights, activeReferenceId)

ReferenceIds == { reference.id : reference \in References }

\* page indices findPhrase may report for a reference
OutcomePages == {0, 1}

\* what findPhrase may return to handleReferenceClick for a reference
FindOutcomes(reference) ==
    {null} \cup { Highlight(reference.id, reference.phrase, pageIndex, fallbackRects) :
                      pageIndex \in OutcomePages }

InitStore ==
    /\ op = "store" /\ pc = "idle"
    /\ IdleStore /\ IdleViewer
    /\ IdleNormalize /\ IdleFuzzy /\ IdleFind /\ IdleMerge

\* App.handleReferenceClick once findPhrase has returned: a highlight is
\* added to the store, null raises the alert; pc names the last store call
HandleReferenceClick ==
    /\ op = "store"
    /\ \E reference \in References :
       \E highlight \in FindOutcomes(reference) :
           /\ phrase' = reference.phrase /\ id' = reference.id
           /\ result' = highlight
           /\ IF highlight # null
              THEN /\ highlights' = addHighlight(store, highlight).highlights
                   /\ activeReferenceId' =
                          addHighlight(store, highlight).activeReferenceId
                   /\ pc' = "addHighlight"
              ELSE /\ UNCHANGED <<highlights, activeReferenceId>>
                   /\ pc' = "alert"
    /\ UNCHANGED <<pdfViewer, op, text, normalized, renormalized, groups, haystack, needle,
                   matched, pageContents, pageHint, searchOrder, cursor, visited,
                   matchingItemIndices, console, rects, merged>>

\* the Clear button of RightPanel: onClick={clearHighlights}
ClearHighlights ==
    /\ op = "store"
    /\ highlights' = clearHighlights(store).highlights
    /\ activeReferenceId' = clearHighlights(store).activeReferenceId
    /\ pc' = "clearHighlights"
    /\ UNCHANGED <<pdfViewer, op, text, normalized, renormalized, groups, haystack, needle,
                   matched, phrase, id, pageContents, pageHint, searchOrder, cursor,
                   visited, matchingItemIndices, console, result, rects, merged>>

RemoveHighlight ==
    /\ op = "store"
    /\ \E hid \in ReferenceIds :
           /\ highlights' = removeHighlight(store, hid).highlights
           /\ activeReferenceId' = removeHighlight(store, hid).activeReferenceId
    /\ pc' = "removeHighlight"
    /\ UNCHANGED <<pdfViewer, op, text, normalized, renormalized, groups, haystack, needle,
                   matched, phrase, id, pageContents, pageHint, searchOrder, cursor,
                   visited, matchingItemIndices, console, result, rects, merged>>

SetActiveReference ==
    /\ op = "store"
    /\ \E active \in {<<>>} \cup { <<hid>> : hid \in ReferenceIds } :
           /\ highlights' = setActiveReference(store, active).highlights
           /\ activeReferenceId' =
                  setActiveReference(store, active).activeReferenceId
    /\ pc' = "setActiveReference"
    /\ UNCHANGED <<pdfViewer, op, text, normalized, renormalized, groups, haystack, needle,
                   matched, phrase, id, pageContents, pageHint, searchOrder, cursor,
                   visited, matchingItemIndices, console, result, rects, merged>>

\* what a user of the two panels can do: click a reference, press Clear
NextClicks ==
    \/ HandleReferenceClick
    \/ ClearHighlights

SpecClicks == InitStore /\ [][NextClicks]_vars

\* the calls that add or remove entries
NextEntries ==
    \/ HandleReferenceClick
    \/ ClearHighlights
    \/ RemoveHighlight

SpecEntries == InitStore /\ [][NextEntries]_vars

\* every call the store offers
NextStore ==
    \/ HandleReferenceClick
    \/ ClearHighlights
    \/ RemoveHighlight
    \/ SetActiveReference

SpecStore == InitStore /\ [][NextStore]_vars

(***************************************************************************)
(* usePdfViewerStore: the page count, the current page and the zoom of     *)
(* the viewer.                                                             *)
(***************************************************************************)
MaxNumPages == 3

setNumPages(state, num) ==
    PdfViewerState(num, state.currentPage, state.scale)

setCurrentPage(state, page) ==
    PdfViewerState(state.numPages, Max(1, Min(page, state.numPages)), state.scale)

setScale(state, zoom) ==
    PdfViewerState(state.numPages, state.currentPage,
                   Max(MIN_SCALE, Min(MAX_SCALE, zoom)))

zoomIn(state) ==
    PdfViewerState(state.numPages, state.currentPage,
                   Min(MAX_SCALE, state.scale + SCALE_STEP))

zoomOut(state) ==
    PdfViewerState(state.numPages, state.currentPage,
                   Max(MIN_SCALE, state.scale - SCALE_STEP))

\* page counts a document may report, and 0
NumPagesArguments == 0..MaxNumPages

\* page numbers asked for, from below the first to beyond the last
PageArguments == (0 - 1)..(MaxNumPages + 1)

\* zooms asked for: below the minimum, the reset value, above the maximum
ScaleArguments == { MIN_SCALE - SCALE_STEP, 120, MAX_SCALE + SCALE_STEP }

InitViewer ==
    /\ op = "viewer" /\ pc = "idle"
    /\ IdleViewer /\ IdleStore
    /\ IdleNormalize /\ IdleFuzzy /\ IdleFind /\ IdleMerge

SetNumPages ==
    /\ op = "viewer"
    /\ \E num \in NumPagesArguments : pdfViewer' = setNumPages(pdfViewer, num)
    /\ pc' = "setNumPages"
    /\ UNCHANGED <<highlights, activeReferenceId, op, text, normalized,
                   renormalized, groups, haystack, needle, matched, phrase, id,
                   pageContents, pageHint, searchOrder, cursor, visited,
                   matchingItemIndices, console, result, rects, merged>>

SetCurrentPage ==
    /\ op = "viewer"
    /\ \E page \in PageArguments : pdfViewer' = setCurrentPage(pdfViewer, page)
    /\ pc' = "setCurrentPage"
    /\ UNCHANGED <<highlights, activeReferenceId, op, text, normalized,
                   renormalized, groups, haystack, needle, matched, phrase, id,
                   pageContents, pageHint, searchOrder, cursor, visited,
                   matchingItemIndices, console, result, rects, merged>>

SetScale ==
    /\ op = "viewer"
    /\ \E zoom \in ScaleArguments : pdfViewer' = setScale(pdfViewer, zoom)
    /\ pc' = "setScale"
    /\ UNCHANGED <<highlights, activeReferenceId, op, text, normalized,
                   renormalized, groups, haystack, needle, matched, phrase, id,
                   pageContents, pageHint, searchOrder, cursor, visited,
                   matchingItemIndices, console, result, rects, merged>>

ZoomIn ==
    /\ op = "viewer"
    /\ pdfViewer' = zoomIn(pdfViewer)
    /\ pc' = "zoomIn"
    /\ UNCHANGED <<highlights, activeReferenceId, op, text, normalized,
                   renormalized, groups, haystack, needle, matched, phrase, id,
                   pageContents, pageHint, searchOrder, cursor, visited,
                   matchingItemIndices, console, result, rects, merged>>

ZoomOut ==
    /\ op = "viewer"
    /\ pdfViewer' = zoomOut(pdfViewer)
    /\ pc' = "zoomOut"
    /\ UNCHANGED <<highlights, activeReferenceId, op, text, normalized,
                   renormalized, groups, haystack, needle, matched, phrase, id,
                   pageContents, pageHint, searchOrder, cursor, visited,
                   matchingItemIndices, console, result, rects, merged>>

NextViewer ==
    \/ SetNumPages
    \/ SetCurrentPage
    \/ SetScale
    \/ ZoomIn
    \/ ZoomOut

SpecViewer == InitViewer /\ [][NextViewer]_vars

(***************************************************************************)
(* Properties of findPhrase                                                *)
(***************************************************************************)
Present(k) == k >= 0 /\ k < Len(pageContents) /\ pageContents[k + 1] # undefined

\* page k is present and its text fuzzy-matches the phrase
Matches(k) == Present(k) /\ fuzzyMatch(pageContents[k + 1].text, phrase)

\* the page indices below n, ascending, without those of the set skip
RECURSIVE Ascending(_, _, _)
Ascending(from, n, skip) ==
    IF from >= n THEN <<>>
    ELSE (IF from \in skip THEN <<>> ELSE <<from>>) \o Ascending(from + 1, n, skip)

\* the visit order the claims describe: the hinted page, then the others
ExpectedOrder ==
    IF pageHint = <<>> THEN Ascending(0, Len(pageContents), {})
    ELSE <<pageHint[1]>> \o Ascending(0, Len(pageContents), {pageHint[1]})

\* positions of ExpectedOrder whose page matches
MatchingPositions == { k \in 1..Len(ExpectedOrder) : Matches(ExpectedOrder[k]) }

FirstMatchPosition == CHOOSE k \in MatchingPositions : \A m \in MatchingPositions : k <= m

\* the present pages among the first n of ExpectedOrder, in that order
ExaminedUpTo(n) == SelectSeq(SubSeq(ExpectedOrder, 1, n), Present)

Finished == op = "findPhrase" /\ pc = "done"

\* C1: when the phrase fuzzy-matches two present pages i < j and findPhrase
\* is called with pageHint = j, the result's pageIndex is j, not i.
C1_HintPrecedence ==
    Finished =>
        \A j \in 0..(Len(pageContents) - 1) :
            (/\ pageHint = <<j>>
             /\ Matches(j)
             /\ \E i \in 0..(j - 1) : Matches(i))
            => (result # null /\ result.pageIndex = j)

C1_Witness ==
    /\ Finished
    /\ phrase = phraseRevenue
    /\ pageHint = <<2>>
    /\ Matches(0) /\ Matches(2)
    /\ result # null /\ result.pageIndex = 2

\* C2: pages are visited hinted page first, then the remaining pages in
\* ascending order, each at most once; the result is for the first page in
\* that order that passes fuzzyMatch and no later page is examined, also when
\* that page only gets the fallback rectangle.
C2_VisitOrder ==
    /\ op = "findPhrase" =>
           /\ \A a, b \in 1..Len(visited) : a # b => visited[a] # visited[b]
           /\ \E n \in 0..Len(ExpectedOrder) : visited = ExaminedUpTo(n)
    /\ Finished =>
           IF MatchingPositions = {}
           THEN result = null /\ visited = ExaminedUpTo(Len(ExpectedOrder))
           ELSE /\ result # null
                /\ result.pageIndex = ExpectedOrder[FirstMatchPosition]
                /\ visited = ExaminedUpTo(FirstMatchPosition)

\* the first matching page gets the fallback and a later page would resolve
C2_Witness ==
    /\ Finished
    /\ result # null /\ result.rects = fallbackRects
    /\ result.pageIndex = 0
    /\ Matches(1) /\ Len(findTextRects(phrase, pageContents[2])) > 0
    /\ visited = <<0>>

\* no present page of the list passes fuzzyMatch for the phrase
NoPageMatches ==
    /\ op = "findPhrase"
    /\ \A k \in 1..Len(pageContents) :
           pageContents[k] # undefined => ~fuzzyMatch(pageContents[k].text, phrase)

\* the loop of findPhrase is sequential code: a call that can step does step
FairSpec == Spec /\ WF_vars(Next)

\* C3: when no present page passes fuzzyMatch, findPhrase ends, and it ends
\* returning null, for every page list and every hint, also one outside the
\* page range.
C3_NotFound == NoPageMatches ~> (Finished /\ result = null)

C3_Witness ==
    /\ Finished
    /\ Len(pageContents) = 2
    /\ pageHint = <<2>>
    /\ pageContents[1] # undefined /\ pageContents[2] = undefined
    /\ ~fuzzyMatch(pageContents[1].text, phrase)
    /\ result = null

\* C4: when the page that matched resolves no rectangle in findTextRects,
\* the result has exactly the one placeholder rectangle
\* {x: 50, y: 100, width: 500, height: 30}.
C4_Placeholder ==
    (Finished /\ MatchingPositions # {})
    => LET page == pageContents[ExpectedOrder[FirstMatchPosition] + 1]
       IN  Len(findTextRects(phrase, page)) = 0
           => /\ result # null
              /\ result.rects = <<[x |-> 50, y |-> 100, width |-> 500, height |-> 30]>>

\* the empty touched-fragment set: the empty phrase is found with length 0
C4_Witness ==
    /\ Finished
    /\ result # null
    /\ \E trace \in {textRectsTrace(phrase, pageContents[result.pageIndex + 1])} :
           trace.found /\ trace.matchingItemIndices = {}
    /\ result.rects = <<[x |-> 50, y |-> 100, width |-> 500, height |-> 30]>>

\* C12: a page whose fragment list is empty is skipped and the scan goes on:
\* such a page is never the page of the returned result.
C12_EmptyFragmentsSkipped ==
    (Finished /\ result # null)
    => pageAt(pageContents, result.pageIndex).items # <<>>

\* the console holds the entry
Logged(entry) == \E k \in 1..Len(console) : console[k] = entry

\* the call returned a highlight and findTextRects had resolved no rectangle
\* for its page
ReturnedPlaceholder ==
    /\ Finished /\ result # null
    /\ Len(findTextRects(phrase, pageContents[result.pageIndex + 1])) = 0

\* C13: a placeholder outcome is told apart from a precise match by the
\* fallback diagnostic, which is logged on the fallback path and never on the
\* precise-match path.
C13_ApproximateFlagged ==
    /\ (Finished /\ result # null)
       => (Logged("warn:fallback") <=> ReturnedPlaceholder)
    /\ (op = "findPhrase" /\ ~Finished) => ~Logged("warn:fallback")

\* a page that matches page-level and resolves no span
C13_Witness ==
    /\ ReturnedPlaceholder
    /\ phrase = phraseRevenues
    /\ result.rects = fallbackRects
    /\ Logged("warn:fallback")

\* C22: every non-null result of findPhrase has at least one rectangle,
\* carries the caller's id and phrase unchanged and has the index of a
\* present page of the page list as pageIndex.
C22_ResultWellFormed ==
    (Finished /\ result # null)
    => /\ Len(result.rects) >= 1
       /\ result.id = id
       /\ result.phrase = phrase
       /\ Present(result.pageIndex)

\* "Revenue 12.8" with page hint 0 on a page that holds it: page index 0 and
\* the rectangle of the fragments "Revenue" and "12.8"
C22_Witness ==
    /\ Finished
    /\ phrase = phraseRevenue /\ pageHint = <<0>>
    /\ Len(pageContents) >= 1 /\ pageContents[1] # undefined
    /\ pageContents[1].items = itemsRevenue
    /\ result # null /\ result.pageIndex = 0
    /\ result.id = "ref-1" /\ result.phrase = phraseRevenue
    /\ result.rects = << Rect(0, 100, 100, 12) >>

\* the Page Content record examined last: the one whose text matched when a
\* result is returned
MatchedRecord == pageContents[visited[Len(visited)] + 1]

\* C23: for every non-null result of findPhrase, result.pageIndex is the
\* pageIndex field of the Page Content record whose text matched, also for
\* page lists from which the extraction loop left out a failed page.
C23_PageIdentity ==
    (Finished /\ result # null) => result.pageIndex = MatchedRecord.pageIndex

(***************************************************************************)
(* Properties of fuzzyMatch                                                *)
(***************************************************************************)
FuzzyDone == op = "fuzzyMatch" /\ pc = "done"

\* normalize(haystack) contains normalize(needle)
Contained == includes(normalizeForMatching(haystack), normalizeForMatching(needle))

\* the number of key terms of the needle
NeedleTermCount == Len(extractKeyTerms(normalizeForMatching(needle)))

\* the number of key terms of the needle that have a haystack counterpart
MatchedTermCount ==
    Len(matchedTerms(normalizeForMatching(haystack), normalizeForMatching(needle)))

\* C5: if the normalized haystack contains the normalized needle then
\* fuzzyMatch is true, whatever the number of key terms of the needle.
C5_ContainmentMatches == (FuzzyDone /\ Contained) => matched

\* a contained needle without any key term
C5_Witness ==
    /\ FuzzyDone /\ Contained
    /\ needle = <<"o","f">> /\ NeedleTermCount = 0
    /\ matched

\* C6: when the normalized needle is not contained, fuzzyMatch is true iff
\* matched / total >= 0.6 or matched >= 2; with 5 key terms, 2 matched ones
\* give true and 1 matched one gives false.
C6_OrThreshold ==
    (FuzzyDone /\ ~Contained)
    => /\ matched <=> \/ (NeedleTermCount > 0
                          /\ 10 * MatchedTermCount >= 6 * NeedleTermCount)
                      \/ MatchedTermCount >= 2
       /\ (NeedleTermCount = 5 /\ MatchedTermCount = 2) => matched
       /\ (NeedleTermCount = 5 /\ MatchedTermCount = 1) => ~matched

\* 2 of 5 key terms matched: ratio 0.4, accepted by the absolute rule
C6_Witness ==
    /\ FuzzyDone /\ ~Contained
    /\ NeedleTermCount = 5 /\ MatchedTermCount = 2
    /\ matched

\* C11: when the normalized needle is not contained in the normalized
\* haystack and the needle yields no key term, fuzzyMatch is false.
C11_NoKeyTerms ==
    (FuzzyDone /\ ~Contained /\ NeedleTermCount = 0) => ~matched

\* the needle "of" against a haystack that shares nothing with it
C11_Witness ==
    /\ FuzzyDone /\ ~Contained
    /\ needle = <<"o","f">> /\ NeedleTermCount = 0
    /\ haystack = <<"G","a","i","n","s">>
    /\ ~matched

\* the tokens of the normalized needle
NeedleTokensOf == SelectSeq(split(normalizeForMatching(needle)), LAMBDA w : w # <<>>)

\* the key terms of the normalized haystack
HaystackTerms == extractKeyTerms(normalizeForMatching(haystack))

\* a key term of the token contains, or is contained in, a haystack term
HasCounterpart(token, hTerms) ==
    \E term \in { extractKeyTerms(token)[n] : n \in 1..Len(extractKeyTerms(token)) } :
        \E h \in 1..Len(hTerms) : includes(hTerms[h], term) \/ includes(term, hTerms[h])

\* C25: each token of the needle contributes at most one key term; when the
\* normalized needle is not contained, exactly one token has a haystack
\* counterpart and the ratio of matched terms is below 0.6, fuzzyMatch is
\* false.
C25_OneTermPerToken ==
    FuzzyDone =>
        \A tokens \in {NeedleTokensOf}, hTerms \in {HaystackTerms} :
            /\ \A n \in 1..Len(tokens) : Len(extractKeyTerms(tokens[n])) <= 1
            /\ (/\ ~Contained
                /\ Cardinality({ n \in 1..Len(tokens) :
                                   HasCounterpart(tokens[n], hTerms) }) = 1
                /\ 10 * MatchedTermCount < 6 * NeedleTermCount)
               => ~matched

(***************************************************************************)
(* Properties of normalizeForMatching                                      *)
(***************************************************************************)
\* C7: normalizing a normalized string changes nothing.
C7_Idempotent ==
    (op = "normalizeForMatching" /\ pc = "done") => renormalized = normalized

\* C8: a number written with the currency symbol and thousands separators
\* normalizes to the same string as the number written with the prefix
\* "USD " and no separators; "$12,800" and "USD 12800" both give "usd 12800".
C8_Currency ==
    (op = "normalizeForMatching" /\ pc # "start" /\ groups # <<>>)
    => /\ normalized = normalizeForMatching(withPrefix(groups))
       /\ groups = << <<"1","2">>, <<"8","0","0">> >>
          => normalized = <<"u","s","d"," ","1","2","8","0","0">>

C8_Witness ==
    /\ op = "normalizeForMatching" /\ pc = "done"
    /\ text = <<"$","1","2",",","8","0","0">>
    /\ normalized = <<"u","s","d"," ","1","2","8","0","0">>
    /\ normalizeForMatching(<<"U","S","D"," ","1","2","8","0","0">>) = normalized

(***************************************************************************)
(* Properties of findTextRects                                             *)
(***************************************************************************)
RectsDone == op = "findTextRects" /\ pc = "done"

\* the items that own the characters at the 0-based positions
\* from .. from + length - 1 of the buffer
Owners(charToItemMap, from, length) ==
    { charToItemMap[i + 1] :
        i \in from .. (Min(from + length, Len(charToItemMap)) - 1) }

\* the strings of the fragments of the page
FragmentStrs == [k \in 1..Len(pageContents[1].items) |-> pageContents[1].items[k].str]

\* the 1-based positions of the lower-cased buffer where the normalized
\* phrase stands
Occurrences(t) ==
    { q \in 1..Len(t.fullText) :
        MatchesAt(toLowerCase(t.fullText), t.normalizedPhrase, q) }

\* C9 as claimed: the fragments "Revenue", "12.8", "billion" and the phrase
\* "Revenue 12.8" touch at least fragments 0 and 1, and whenever
\* normalization keeps the length of the buffer, the touched set contains
\* every fragment that owns a character of the matched substring (here: of
\* the one place of the buffer where the phrase stands).
C9_LengthUnchanged ==
    RectsDone =>
        /\ (FragmentStrs = <<sRevenue, s128, sBillion>> /\ phrase = phraseRevenue)
           => {0, 1} \subseteq matchingItemIndices
        /\ \A t \in {Call(located, indexed(phrase, pageContents[1]))} :
              (/\ t.found /\ ~t.partial
               /\ Len(t.normalizedFullText) = Len(t.fullText)
               /\ Cardinality(Occurrences(t)) = 1)
              => \A q \in Occurrences(t) :
                    Owners(t.charToItemMap, q - 1, t.searchLength)
                        \subseteq matchingItemIndices

\* C9 as amended: the same, for buffers that normalization leaves unchanged
\* up to letter case, and for the span of either pass.
C9_CaseOnly ==
    RectsDone =>
        /\ (FragmentStrs = <<sRevenue, s128, sBillion>> /\ phrase = phraseRevenue)
           => {0, 1} \subseteq matchingItemIndices
        /\ \A t \in {Call(located, indexed(phrase, pageContents[1]))} :
              (t.found /\ t.normalizedFullText = toLowerCase(t.fullText))
              => Owners(t.charToItemMap, t.startIndex, t.searchLength)
                     \subseteq matchingItemIndices

C9_Witness ==
    /\ RectsDone
    /\ FragmentStrs = <<sRevenue, s128, sBillion>> /\ phrase = phraseRevenue
    /\ matchingItemIndices = {0, 1}

\* the buffer and the character-to-fragment table built for the page
Index == buildIndex(pageContents[1].items)

\* the fragments joined with a single space wherever Separated(a, b) holds
\* of two consecutive fragments a, b
Joined(strs, Separated(_, _)) ==
    concat([k \in 1..Len(strs) |->
               strs[k] \o (IF k < Len(strs) /\ Separated(strs[k], strs[k + 1])
                           THEN <<" ">> ELSE <<>>)])

\* neither the last character of a nor the first of b is a whitespace character
NoWhitespaceBetween(a, b) ==
    /\ ~(Len(a) > 0 /\ a[Len(a)] \in Whitespace)
    /\ ~(Len(b) > 0 /\ b[1] \in Whitespace)

\* neither the last character of a nor the first of b is the space character
NoSpaceBetween(a, b) ==
    /\ ~(Len(a) > 0 /\ a[Len(a)] = " ")
    /\ ~(Len(b) > 0 /\ b[1] = " ")

\* C16 as claimed: a single space is inserted between two consecutive
\* fragments iff neither the last character of the first nor the first
\* character of the second is a whitespace character (space, tab, newline,
\* ...), and none after the last fragment.
C16_WhitespaceRule ==
    RectsDone => Index.fullText = Joined(FragmentStrs, NoWhitespaceBetween)

\* C16 as amended: the same with the space character alone in place of the
\* whitespace characters.
C16_SpaceRule ==
    RectsDone => Index.fullText = Joined(FragmentStrs, NoSpaceBetween)

\* a fragment ending with a tab is followed by a synthetic space, one ending
\* with a space is not
C16_Witness ==
    /\ RectsDone
    /\ FragmentStrs = <<sTabbed, sTrailing, sRevenue>>
    /\ Index.fullText = sTabbed \o <<" ">> \o sTrailing \o sRevenue

\* fragment k (1-based) is followed by a synthetic space
SpaceFollows(k) ==
    /\ k < Len(FragmentStrs)
    /\ NoSpaceBetween(FragmentStrs[k], FragmentStrs[k + 1])

\* the number of buffer characters that come before fragment k (1-based)
RECURSIVE BufferOffset(_)
BufferOffset(k) ==
    IF k <= 1 THEN 0
    ELSE BufferOffset(k - 1) + Len(FragmentStrs[k - 1])
         + (IF SpaceFollows(k - 1) THEN 1 ELSE 0)

\* C17: the table has exactly one entry per character of the buffer; the
\* entry of a character copied from fragment k is k, the entry of the
\* synthetic space inserted after fragment k is k, and the table is
\* non-decreasing along the buffer.
C17_CharToItemMap ==
    RectsDone =>
        \A index \in {Index}, strs \in {FragmentStrs} :
        \A offset \in {[k \in 1..Len(strs) |-> BufferOffset(k)]} :
            /\ Len(index.charToItemMap) = Len(index.fullText)
            /\ \A k \in 1..Len(strs) :
                  /\ \A i \in 1..Len(strs[k]) :
                        /\ index.fullText[offset[k] + i] = strs[k][i]
                        /\ index.charToItemMap[offset[k] + i] = k - 1
                  /\ SpaceFollows(k) =>
                        /\ index.fullText[offset[k] + Len(strs[k]) + 1] = " "
                        /\ index.charToItemMap[offset[k] + Len(strs[k]) + 1] = k - 1
            /\ \A a \in 1..(Len(index.charToItemMap) - 1) :
                  index.charToItemMap[a] <= index.charToItemMap[a + 1]

\* "Revenue 12.8 billion": 8 entries 0, 5 entries 1, 7 entries 2
C17_Witness ==
    /\ RectsDone
    /\ FragmentStrs = <<sRevenue, s128, sBillion>>
    /\ Index.charToItemMap =
           [i \in 1..20 |-> IF i <= 8 THEN 0 ELSE IF i <= 13 THEN 1 ELSE 2]

\* the locals of the call up to the translated span
Located == Call(located, indexed(phrase, pageContents[1]))

\* the 0-based offsets of the occurrences of term in s
OffsetsOf(s, term) == { q \in 0..(Len(s) - Len(term)) : MatchesAt(s, term, q + 1) }

\* the 0-based offset of the first occurrence of term in s
FirstOffset(s, term) ==
    CHOOSE q \in OffsetsOf(s, term) : \A r \in OffsetsOf(s, term) : q <= r

\* the key terms (by position in the list) that stand within [lo, hi) of s
TermsWithin(terms, s, lo, hi) ==
    { j \in 1..Len(terms) :
        \E q \in OffsetsOf(s, terms[j]) : q >= lo /\ q + Len(terms[j]) <= hi }

\* key term k occurs and its window holds at least max(1, half) of the terms
Accepted(terms, s, k) ==
    /\ OffsetsOf(s, terms[k]) # {}
    /\ \A n \in {Cardinality(TermsWithin(terms, s,
                                          Max(0, FirstOffset(s, terms[k]) - 50),
                                          Min(Len(s), FirstOffset(s, terms[k]) + 100)))} :
           n >= 1 /\ 2 * n >= Len(terms)

\* C18: when the normalized phrase is not in the normalized buffer, the key
\* terms are tried in order (numbers, then words) at their first occurrence;
\* the first one whose window [offset - 50, offset + 100) holds at least
\* max(1, 0.5 x total) of the key terms gives the span: it starts at that
\* offset and has length min(100, buffer length - offset); with no such
\* term no span is resolved.
C18_PartialPass ==
    RectsDone =>
        \A t \in {Located} :
            ~includes(t.normalizedFullText, t.normalizedPhrase)
            => \A terms \in {allKeyTerms(t.normalizedPhrase)} :
               \A accepted \in {{ k \in 1..Len(terms) :
                                     Accepted(terms, t.normalizedFullText, k) }} :
                  IF accepted = {}
                  THEN ~t.found /\ merged = <<>>
                  ELSE \A k \in accepted :
                          (\A j \in accepted : k <= j)
                          => /\ t.found /\ t.partial
                             /\ t.startIndex =
                                    FirstOffset(t.normalizedFullText, terms[k])
                             /\ t.searchLength =
                                    Min(100, Len(t.normalizedFullText) - t.startIndex)

\* the first term, 42, is alone in its window; revenue at 113 is accepted
\* and 115 characters remain
C18_Witness ==
    /\ RectsDone
    /\ FragmentStrs = strsFarRight /\ phrase = phraseOutlook
    /\ Located.partial
    /\ Located.startIndex = 113 /\ Located.searchLength = 100

\* the fragments (0-based) that own a character of [from, to) of the buffer
OwnersWithin(index, from, to) ==
    { k \in 0..(Len(FragmentStrs) - 1) :
        \E i \in 0..(Len(index.fullText) - 1) :
            i >= from /\ i < to /\ index.charToItemMap[i + 1] = k }

\* the members of a set of numbers in ascending order
AscendingSeq(S) ==
    [n \in 1..Cardinality(S) |->
        CHOOSE a \in S : Cardinality({b \in S : b < a}) = n - 1]

\* the rectangle of fragment k (0-based): its origin, width and height
FragmentRect(k) ==
    [x      |-> pageContents[1].items[k + 1].transform[5],
     y      |-> pageContents[1].items[k + 1].transform[6],
     width  |-> pageContents[1].items[k + 1].width,
     height |-> IF pageContents[1].items[k + 1].height = 0 THEN 12
                ELSE pageContents[1].items[k + 1].height]

\* C19: the rectangles built by findTextRects are those of exactly the
\* fragments that own a character of the span [originalStart, originalEnd)
\* clipped to the buffer, in ascending fragment index; when the span
\* touches no fragment, findTextRects returns no rectangle.
C19_TouchedFragments ==
    RectsDone =>
        \A t \in {Located}, index \in {Index} :
            IF ~t.found THEN rects = <<>> /\ merged = <<>>
            ELSE \A owners \in {OwnersWithin(index, t.originalStart, t.originalEnd)} :
                    /\ matchingItemIndices = owners
                    /\ rects = [n \in 1..Cardinality(owners) |->
                                   FragmentRect(AscendingSeq(owners)[n])]
                    /\ owners = {} => merged = <<>>
                    /\ owners # {} => merged # <<>>

\* "x $5 $5" normalizes to "x usd 5 usd 5": the x found at offset 0 with
\* length 1 translates to the empty span [0, 0)
C19_Witness ==
    /\ RectsDone
    /\ FragmentStrs = << <<"x">>, <<"$","5">>, <<"$","5">> >> /\ phrase = phraseX
    /\ Located.found
    /\ Located.originalStart = 0 /\ Located.originalEnd = 0
    /\ matchingItemIndices = {} /\ merged = <<>>

\* C26: whenever a span is resolved, the translated offsets are numbers
\* with 0 <= originalStart <= originalEnd <= length of the buffer.
C26_OffsetBounds ==
    RectsDone =>
        \A t \in {Located} :
            t.found => /\ ~t.nan
                       /\ 0 <= t.originalStart
                       /\ t.originalStart <= t.originalEnd
                       /\ t.originalEnd <= Len(t.fullText)

(***************************************************************************)
(* Properties of mergeRects                                                *)
(***************************************************************************)
MergeDone == op = "mergeRects" /\ pc = "done"

\* C10: the rectangles y=100, x=0..50 and y=101, x=55..100 merge into one
\* rectangle covering x=0..100; two rectangles whose y differ by 5 or more
\* are never merged into one, whatever their x and width.
C10_MergeCorrect ==
    MergeDone =>
        /\ rects \in { << Rect(0, 100, 50, 12), Rect(55, 101, 45, 12) >>,
                       << Rect(55, 101, 45, 12), Rect(0, 100, 50, 12) >> }
           => (Len(merged) = 1 /\ merged[1].x = 0 /\ merged[1].width = 100)
        /\ (Len(rects) = 2 /\ Abs(rects[1].y - rects[2].y) >= 5)
           => (Len(merged) = 2 /\ {merged[1], merged[2]} = {rects[1], rects[2]})
        /\ \A sorted \in {sortRects(rects)}, trace \in {mergeTrace(rects)} :
              /\ Len(merged) = Len(trace)
              /\ \A g \in 1..Len(trace) : \A a, b \in trace[g].from :
                    Abs(sorted[a].y - sorted[b].y) < 5

C10_Witness ==
    /\ MergeDone
    /\ rects = << Rect(0, 100, 50, 12), Rect(55, 101, 45, 12) >>
    /\ merged = << Rect(0, 100, 100, 12) >>


\* the smallest x and the largest right edge of the rectangles of `sorted`
\* at the positions ps
LeftEdge(sorted, ps) ==
    CHOOSE x \in { sorted[q].x : q \in ps } :
        \A q \in ps : x <= sorted[q].x

RightEdge(sorted, ps) ==
    CHOOSE r \in { sorted[q].x + sorted[q].width : q \in ps } :
        \A q \in ps : r >= sorted[q].x + sorted[q].width

\* C20: two input rectangles end up in the same output rectangle only if
\* they are on the same line (y difference < 5), and a rectangle is folded
\* into the rectangles merged so far only if its horizontal extent is at
\* most 10 units away from theirs, on the right and on the left.
C20_GapTolerance ==
    MergeDone =>
        \A sorted \in {sortRects(rects)}, trace \in {mergeTrace(rects)} :
        \A g \in 1..Len(trace) :
        \A p \in trace[g].from :
        \A earlier \in {{ q \in trace[g].from : q < p }} :
            earlier # {}
            => /\ \A q \in earlier : Abs(sorted[q].y - sorted[p].y) < 5
               /\ sorted[p].x <= RightEdge(sorted, earlier) + 10
               /\ LeftEdge(sorted, earlier) <= sorted[p].x + sorted[p].width + 10

\* C21: the returned rectangles are in the order of the sort key: none is
\* preceded by a rectangle with a larger y, or with equal y and a larger x.
C21_OutputOrder ==
    MergeDone =>
        \A a, b \in 1..Len(merged) :
            a < b => /\ merged[a].y <= merged[b].y
                     /\ merged[a].y = merged[b].y => merged[a].x <= merged[b].x

\* C24: mergeRects(mergeRects(R)) = mergeRects(R): no two rectangles of the
\* output are merged when the output is scanned again.
C24_MergeIdempotent == MergeDone => mergeRects(merged) = merged

\* calls of findPhrase and calls of mergeRects
InitInputs == Init \/ InitMerge

NextInputs == Next \/ NextMerge

SpecInputs == InitInputs /\ [][NextInputs]_vars

\* C15: findPhrase and mergeRects do not mutate their inputs: no step of a
\* call changes the page list, a page's text or fragment sequence, or the
\* rectangle array passed to mergeRects, also when it is sorted and merged.
C15_InputsNotMutated ==
    [][pageContents' = pageContents /\ rects' = rects]_vars

\* an unsorted argument whose two rectangles were sorted and merged
C15_Witness ==
    /\ MergeDone
    /\ rects = << Rect(55, 101, 45, 12), Rect(0, 100, 50, 12) >>
    /\ sortRects(rects) # rects
    /\ merged = << Rect(0, 100, 100, 12) >>

(***************************************************************************)
(* Properties of useHighlightStore                                         *)
(***************************************************************************)
\* the highlight is an entry of the list
InList(h, hs) == \E k \in 1..Len(hs) : hs[k] = h

\* C14: a highlight stays in highlights until clearHighlights is called or
\* a new reference is clicked; once a new reference is clicked, the
\* highlights added before are gone and only the newest one is in the list.
C14_PersistsUntilNextClick ==
    [][ /\ \A k \in 1..Len(highlights) :
               \/ InList(highlights[k], highlights')
               \/ pc' = "clearHighlights"
               \/ pc' = "addHighlight"
        /\ pc' = "addHighlight" => highlights' = <<result'>> ]_vars

\* the ids of the entries, in order
Ids(hs) == [k \in 1..Len(hs) |-> hs[k].id]

UniqueIds(hs) == \A j, k \in 1..Len(hs) : hs[j].id = hs[k].id => j = k

\* the entries with another id, in order
Others(hs, hid) == SelectSeq(hs, LAMBDA h : h.id # hid)

\* C27: no two entries of highlights have the same id; addHighlight puts
\* the new highlight last, drops the old entry of that id and keeps the
\* other entries.
C27_UniqueIds ==
    /\ []UniqueIds(highlights)
    /\ [][ pc' = "addHighlight" =>
               /\ highlights' = Append(Others(highlights, result'.id), result')
               /\ Len(Others(highlights', result'.id)) = Len(highlights') - 1 ]_vars

\* every reference has an entry, the newest one last and found on another
\* page than the first
C27_Witness ==
    /\ pc = "addHighlight"
    /\ Len(highlights) = Cardinality(ReferenceIds)
    /\ highlights[Len(highlights)] = result
    /\ result.pageIndex # highlights[1].pageIndex

\* the active reference is null or the id of an entry
ActiveInList == \A hid \in ReferenceIds :
                    activeReferenceId = <<hid>> =>
                        \E k \in 1..Len(highlights) : highlights[k].id = hid

\* the entry of the active reference leaves the list in this step
ActiveRemoved == \E k \in 1..Len(highlights) :
                     /\ activeReferenceId = <<highlights[k].id>>
                     /\ UniqueIds(highlights')
                     /\ \A j \in 1..Len(highlights') :
                            highlights'[j].id # highlights[k].id

\* C28: with addHighlight, removeHighlight and clearHighlights only,
\* activeReferenceId is null or the id of an entry of highlights; removing
\* the active highlight resets it to null, removing another one leaves it.
C28_ActiveConsistent ==
    /\ []ActiveInList
    /\ [][ pc' = "removeHighlight" =>
               activeReferenceId' =
                   IF ActiveRemoved THEN <<>> ELSE activeReferenceId ]_vars

\* the active highlight has been removed and another one is left
C28_Witness ==
    /\ pc = "removeHighlight"
    /\ activeReferenceId = <<>>
    /\ Len(highlights) >= 1

(***************************************************************************)
(* Properties of usePdfViewerStore                                         *)
(***************************************************************************)
\* C29: currentPage >= 1 always, and whenever numPages >= 1 also
\* currentPage <= numPages, after any calls of setNumPages and
\* setCurrentPage.
C29_PageBounds ==
    /\ pdfViewer.currentPage >= 1
    /\ pdfViewer.numPages >= 1 => pdfViewer.currentPage <= pdfViewer.numPages

=============================================================================
